---- MODULE Spec2Model ----
(***************************************************************************)
(* Model of the sorting-game engine (src/src/game/mod.rs): the Game        *)
(* aggregate, move legality, the completion bitmask, the ledger with undo  *)
(* and the turn loop.  The Stack, Kind and Entry collaborators live in     *)
(* sub-modules that are not part of the source tree at hand; they are      *)
(* modelled from their documented interface.                               *)
(***************************************************************************)
EXTENDS Integers, Sequences, FiniteSets, TLC

\* ------------------------------------------------------------------------
\* Bounds of the model
\* ------------------------------------------------------------------------
NumStacks == 3
Capacity == 3
MaxKind == 2
MaxUnits == 4
MaxTurn == 4

\* ------------------------------------------------------------------------
\* Kind and Stack (collaborators)
\* ------------------------------------------------------------------------
\* Kind's "empty" sentinel, returned when the top of an empty stack is read.
EmptyKind == 0

Kinds == 1..MaxKind

StackIdx == 0..(NumStacks - 1)

\* Option<usize>: None is <<>>, Some(q) is <<q>>.
None == <<>>

Some(q) == <<q>>

is_some(opt) == Len(opt) > 0

\* Option<String>::unwrap_or
unwrap_or(opt, default) == IF is_some(opt) THEN opt[1] ELSE default

\* Stack::new(): an empty stack.
StackNew == [units |-> <<>>, capacity |-> Capacity]

\* Kind::is_empty
is_empty(kind) == kind = EmptyKind

\* Stack::clone_top_unit: the top kind, or the empty sentinel.
clone_top_unit(stack) ==
    IF Len(stack.units) = 0 THEN EmptyKind ELSE stack.units[Len(stack.units)]

\* Stack::get_vacancy: capacity minus length.
get_vacancy(stack) == stack.capacity - Len(stack.units)

\* Length of the maximal run of one kind at the top (the end) of units.
RECURSIVE top_run_len(_)
top_run_len(units) ==
    IF Len(units) = 0 THEN 0
    ELSE IF Len(units) = 1 THEN 1
    ELSE IF units[Len(units) - 1] = units[Len(units)]
         THEN 1 + top_run_len(SubSeq(units, 1, Len(units) - 1))
         ELSE 1

Min(a, b) == IF a <= b THEN a ELSE b

\* Stack::pop_immigrants_with_limit: removes the maximal top run of the top
\* kind, capped at the limit when one is given, and hands it to immigrants.
\* The result is the pair of the stack left behind and the immigrants.
pop_immigrants_with_limit(stack, immigrants, limit_) ==
    LET run == top_run_len(stack.units)
        n == IF is_some(limit_) THEN Min(run, limit_[1]) ELSE run
        len == Len(stack.units)
    IN [stack |-> [stack EXCEPT !.units = SubSeq(stack.units, 1, len - n)],
        immigrants |-> [immigrants EXCEPT
                          !.units = immigrants.units \o SubSeq(stack.units, len - n + 1, len)]]

\* Stack::pop_immigrants: the uncapped extraction.
pop_immigrants(stack, immigrants) == pop_immigrants_with_limit(stack, immigrants, None)

\* Stack::push_immigrants: puts the run on top of the stack.
push_immigrants(stack, immigrants) ==
    [stack EXCEPT !.units = stack.units \o immigrants.units]

\* ------------------------------------------------------------------------
\* Game
\* ------------------------------------------------------------------------
\* Number of occurrences of kind in a sequence of units.
RECURSIVE count_in(_, _)
count_in(units, kind) ==
    IF Len(units) = 0 THEN 0
    ELSE (IF units[Len(units)] = kind THEN 1 ELSE 0)
         + count_in(SubSeq(units, 1, Len(units) - 1), kind)

RECURSIVE sum_over(_, _, _)
sum_over(stacks, idx, kind) ==
    IF idx = {} THEN 0
    ELSE LET i == CHOOSE j \in idx : TRUE
         IN count_in(stacks[i].units, kind) + sum_over(stacks, idx \ {i}, kind)

\* Game::count_kinds: a map from every kind present to its number of units.
count_kinds(stacks) ==
    LET present == {k \in Kinds : \E i \in DOMAIN stacks : count_in(stacks[i].units, k) > 0}
    IN [k \in present |-> sum_over(stacks, DOMAIN stacks, k)]

index_kinds_by_id(units_per_kind) ==
    [k \in DOMAIN units_per_kind |-> k - 1]

\* Game::index_kinds: kinds sorted, numbered from 0.
index_kinds(units_per_kind) ==
    [k \in DOMAIN units_per_kind |->
        Cardinality({j \in DOMAIN units_per_kind : j < k})]

\* Game::new
Game_new(stacks, stage_name) ==
    [stacks |-> stacks,
     units_per_kind |-> count_kinds(stacks),
     kind_indices |-> index_kinds(count_kinds(stacks)),
     kinds_status |-> 0,
     turn |-> 1,
     stage_name |-> unwrap_or(stage_name, ""),
     ledger |-> <<>>]

\* Game::clone: a new Game over a copy of the stacks.
clone(self) == Game_new(self.stacks, Some(self.stage_name))

move_is_legal_strict_room(immigrants, residents) ==
    LET top_immigrant == clone_top_unit(immigrants)
        top_resident == clone_top_unit(residents)
        tops_match == (top_immigrant = top_resident) \/ is_empty(top_immigrant)
                      \/ is_empty(top_resident)
        there_is_room == Len(immigrants.units) < get_vacancy(residents)
    IN tops_match /\ there_is_room

move_is_legal_ignores_room(immigrants, residents) ==
    LET top_immigrant == clone_top_unit(immigrants)
        top_resident == clone_top_unit(residents)
    IN (top_immigrant = top_resident) \/ is_empty(top_immigrant) \/ is_empty(top_resident)

move_is_legal_requires_units(immigrants, residents) ==
    LET top_immigrant == clone_top_unit(immigrants)
        top_resident == clone_top_unit(residents)
        tops_match == (top_immigrant = top_resident) \/ is_empty(top_resident)
        there_is_room == Len(immigrants.units) <= get_vacancy(residents)
    IN tops_match /\ there_is_room

\* Game::move_is_legal
move_is_legal(immigrants, residents) ==
    LET top_immigrant == clone_top_unit(immigrants)
        top_resident == clone_top_unit(residents)
        tops_match == (top_immigrant = top_resident) \/ is_empty(top_immigrant)
                      \/ is_empty(top_resident)
        there_is_room == Len(immigrants.units) <= get_vacancy(residents)
    IN tops_match /\ there_is_room

\* Bit i of the mask x.
bit(x, i) == (x \div (2 ^ i)) % 2 = 1

\* x | operand, for an operand with the single bit i set.
bit_or(x, i) == IF bit(x, i) THEN x ELSE x + (2 ^ i)

\* Game::stage_complete
stage_complete(self) ==
    self.kinds_status = (2 ^ Cardinality(DOMAIN self.units_per_kind)) - 1

update_kind_status_resets_mask(self, stack_ind) ==
    LET popped == pop_immigrants(self.stacks[stack_ind], StackNew)
        immigrants == popped.immigrants
        top_immigrant == clone_top_unit(immigrants)
        index == self.kind_indices[top_immigrant]
        status == IF ~is_empty(top_immigrant)
                  THEN IF Len(immigrants.units) # self.units_per_kind[top_immigrant]
                       THEN 0
                       ELSE 2 ^ index
                  ELSE self.kinds_status
    IN [self EXCEPT !.kinds_status = status,
                    !.stacks[stack_ind] = push_immigrants(popped.stack, immigrants)]

update_kind_status_no_set(self, stack_ind) ==
    LET popped == pop_immigrants(self.stacks[stack_ind], StackNew)
        immigrants == popped.immigrants
        top_immigrant == clone_top_unit(immigrants)
        index == self.kind_indices[top_immigrant]
        status == IF ~is_empty(top_immigrant)
                  THEN IF Len(immigrants.units) # self.units_per_kind[top_immigrant]
                       THEN self.kinds_status - (2 ^ index)
                       ELSE bit_or(self.kinds_status, index)
                  ELSE self.kinds_status
    IN [self EXCEPT !.kinds_status = status,
                    !.stacks[stack_ind] = push_immigrants(popped.stack, immigrants)]

\* Game::update_kind_status
update_kind_status(self, stack_ind) ==
    LET popped == pop_immigrants(self.stacks[stack_ind], StackNew)
        immigrants == popped.immigrants
        top_immigrant == clone_top_unit(immigrants)
        index == self.kind_indices[top_immigrant]
        set == bit_or(self.kinds_status, index)
        status == IF ~is_empty(top_immigrant)
                  THEN IF Len(immigrants.units) # self.units_per_kind[top_immigrant]
                       THEN set - (2 ^ index)
                       ELSE set
                  ELSE self.kinds_status
    IN [self EXCEPT !.kinds_status = status,
                    !.stacks[stack_ind] = push_immigrants(popped.stack, immigrants)]

ledge_swapped(self, from, to, kind, quantity) ==
    [self EXCEPT !.ledger = Append(self.ledger,
        [from |-> to, to |-> from, kind |-> kind, quantity |-> quantity])]

\* Game::ledge
ledge(self, from, to, kind, quantity) ==
    [self EXCEPT !.ledger = Append(self.ledger,
        [from |-> from, to |-> to, kind |-> kind, quantity |-> quantity])]

update_state_always_counts(self, from, to) ==
    LET updated == update_kind_status(update_kind_status(self, from), to)
    IN [updated EXCEPT !.turn = updated.turn + 1]

\* Game::update_state
update_state(self, from, to) ==
    LET updated == update_kind_status(update_kind_status(self, from), to)
    IN [updated EXCEPT !.turn = updated.turn + (IF stage_complete(updated) THEN 0 ELSE 1)]

\* The local move_approved of Game::move_units.
move_approved(self, from, to, limit_) ==
    LET popped == pop_immigrants_with_limit(self.stacks[from], StackNew, limit_)
        stacks == [self.stacks EXCEPT ![from] = popped.stack]
    IN is_some(limit_) \/ move_is_legal(popped.immigrants, stacks[to])

move_units_drops_rejected(self, from, to, limit_) ==
    LET popped == pop_immigrants_with_limit(self.stacks[from], StackNew, limit_)
        immigrants == popped.immigrants
        kind == clone_top_unit(immigrants)
        quantity == Len(immigrants.units)
        taken == [self EXCEPT !.stacks[from] = popped.stack]
        approved == is_some(limit_) \/ move_is_legal(immigrants, taken.stacks[to])
        pushed == [taken EXCEPT !.stacks[to] = push_immigrants(taken.stacks[to], immigrants)]
    IN IF approved
       THEN IF is_some(limit_)
            THEN update_state(pushed, from, to)
            ELSE ledge(update_state(pushed, from, to), from, to, kind, quantity)
       ELSE taken

move_units_counts_rejected(self, from, to, limit_) ==
    LET popped == pop_immigrants_with_limit(self.stacks[from], StackNew, limit_)
        immigrants == popped.immigrants
        kind == clone_top_unit(immigrants)
        quantity == Len(immigrants.units)
        taken == [self EXCEPT !.stacks[from] = popped.stack]
        approved == is_some(limit_) \/ move_is_legal(immigrants, taken.stacks[to])
        dest == IF approved THEN to ELSE from
        pushed == [taken EXCEPT !.stacks[dest] = push_immigrants(taken.stacks[dest], immigrants)]
    IN IF approved
       THEN IF is_some(limit_)
            THEN update_state(pushed, from, to)
            ELSE ledge(update_state(pushed, from, to), from, to, kind, quantity)
       ELSE update_state(pushed, from, to)

move_units_ledges_forced(self, from, to, limit_) ==
    LET popped == pop_immigrants_with_limit(self.stacks[from], StackNew, limit_)
        immigrants == popped.immigrants
        kind == clone_top_unit(immigrants)
        quantity == Len(immigrants.units)
        taken == [self EXCEPT !.stacks[from] = popped.stack]
        approved == is_some(limit_) \/ move_is_legal(immigrants, taken.stacks[to])
        dest == IF approved THEN to ELSE from
        pushed == [taken EXCEPT !.stacks[dest] = push_immigrants(taken.stacks[dest], immigrants)]
    IN IF approved
       THEN ledge(update_state(pushed, from, to), from, to, kind, quantity)
       ELSE pushed

\* Game::move_units
move_units(self, from, to, limit_) ==
    LET popped == pop_immigrants_with_limit(self.stacks[from], StackNew, limit_)
        immigrants == popped.immigrants
        kind == clone_top_unit(immigrants)
        quantity == Len(immigrants.units)
        taken == [self EXCEPT !.stacks[from] = popped.stack]
        approved == is_some(limit_) \/ move_is_legal(immigrants, taken.stacks[to])
        dest == IF approved THEN to ELSE from
        pushed == [taken EXCEPT !.stacks[dest] = push_immigrants(taken.stacks[dest], immigrants)]
    IN IF approved
       THEN IF is_some(limit_)
            THEN update_state(pushed, from, to)
            ELSE ledge(update_state(pushed, from, to), from, to, kind, quantity)
       ELSE pushed

\* Game::move_legally
move_legally(self, from, to) == move_units(self, from, to, None)

\* Game::move_forcefully
move_forcefully(self, from, to, quantity) == move_units(self, from, to, Some(quantity))

undo_move_same_direction(self) ==
    IF Len(self.ledger) > 0
    THEN LET entry == self.ledger[Len(self.ledger)]
             popped == [self EXCEPT !.ledger = SubSeq(self.ledger, 1, Len(self.ledger) - 1)]
         IN move_forcefully(popped, entry.from, entry.to, entry.quantity)
    ELSE self

undo_move_counts_empty(self) ==
    IF Len(self.ledger) > 0
    THEN LET entry == self.ledger[Len(self.ledger)]
             popped == [self EXCEPT !.ledger = SubSeq(self.ledger, 1, Len(self.ledger) - 1)]
         IN move_forcefully(popped, entry.to, entry.from, entry.quantity)
    ELSE [self EXCEPT !.turn = self.turn + 1]

undo_move_one_unit(self) ==
    IF Len(self.ledger) > 0
    THEN LET entry == self.ledger[Len(self.ledger)]
             popped == [self EXCEPT !.ledger = SubSeq(self.ledger, 1, Len(self.ledger) - 1)]
         IN move_forcefully(popped, entry.to, entry.from, Min(entry.quantity, 1))
    ELSE self

\* Game::undo_move
undo_move(self) ==
    IF Len(self.ledger) > 0
    THEN LET entry == self.ledger[Len(self.ledger)]
             popped == [self EXCEPT !.ledger = SubSeq(self.ledger, 1, Len(self.ledger) - 1)]
         IN move_forcefully(popped, entry.to, entry.from, entry.quantity)
    ELSE self

\* ------------------------------------------------------------------------
\* The turn loop
\* ------------------------------------------------------------------------
VARIABLES
    game,           \* the live Game (self of turn_loop)
    stage_backup,   \* the Game cloned when turn_loop starts
    pc,             \* "playing" while the loop runs, "done" after the break
    start_stacks,   \* the layout the stage had when turn_loop started
    last,           \* the decision dispatched by the latest iteration (prev: the one before)
    before,         \* the Game as it was before the latest move or undo (after a reset: the fresh Game)
    approved_moves, \* approved player moves since construction / last reset
    undos           \* undos of a non-empty ledger since construction / last reset

vars == <<game, stage_backup, pc, start_stacks, last, before, approved_moves, undos>>

NoStack == 0 - 1

\* Sequences of kinds of length at most n.
RECURSIVE UnitSeqs(_)
UnitSeqs(n) ==
    IF n = 0 THEN {<<>>}
    ELSE LET shorter == UnitSeqs(n - 1)
         IN shorter \cup {Append(s, k) : s \in {t \in shorter : Len(t) = n - 1}, k \in Kinds}

\* The layouts of n stacks holding at most budget units in all, each stack
\* at most maxlen high and no higher than the one before it.
RECURSIVE LayoutSeqs(_, _, _)
LayoutSeqs(n, budget, maxlen) ==
    IF n = 0 THEN {<<>>}
    ELSE UNION {{<<units>> \o rest : rest \in LayoutSeqs(n - 1, budget - Len(units), Len(units))} :
                   units \in UnitSeqs(Min(maxlen, budget))}

\* The initial layouts a stage may have: every stack within its capacity.
\* The engine never compares stack indices, so of the layouts that differ
\* only in the order of the stacks those listed fullest first are kept.
Layouts ==
    {[i \in StackIdx |-> [units |-> layout[i + 1], capacity |-> Capacity]] :
        layout \in LayoutSeqs(NumStacks, MaxUnits, Capacity)}

StageNames == {Some("stage")}

Init ==
    /\ \E stacks \in Layouts, name \in StageNames :
          /\ game = Game_new(stacks, name)
          /\ stage_backup = clone(Game_new(stacks, name))
          /\ before = Game_new(stacks, name)
          /\ start_stacks = stacks
    /\ pc = "playing"
    /\ last = [op |-> "start", from |-> NoStack, to |-> NoStack, approved |-> FALSE,
              prev |-> "start"]
    /\ approved_moves = 0
    /\ undos = 0

Playing_ignores_completion == pc = "playing"

\* The loop is past its completion check and reads a decision.
Playing == pc = "playing" /\ ~stage_complete(game)

\* Some((from, to)) => self.move_legally(from, to)
MoveLegally(from, to) ==
    /\ Playing
    /\ game.turn < MaxTurn
    /\ game' = move_legally(game, from, to)
    /\ before' = game
    /\ last' = [op |-> "move", from |-> from, to |-> to,
                approved |-> move_approved(game, from, to, None), prev |-> last.op]
    /\ approved_moves' = approved_moves
                         + (IF move_approved(game, from, to, None) THEN 1 ELSE 0)
    /\ UNCHANGED <<stage_backup, pc, start_stacks, undos>>

\* MenuOption::Undo => self.undo_move()
UndoMove ==
    /\ Playing
    /\ game.turn < MaxTurn
    /\ game' = undo_move(game)
    /\ before' = game
    /\ last' = [op |-> "undo", from |-> NoStack, to |-> NoStack,
                approved |-> Len(game.ledger) > 0, prev |-> last.op]
    /\ undos' = undos + (IF Len(game.ledger) > 0 THEN 1 ELSE 0)
    /\ UNCHANGED <<stage_backup, pc, start_stacks, approved_moves>>

Reset_clones_self ==
    /\ Playing
    /\ game' = clone(game)
    /\ before' = clone(stage_backup)
    /\ last' = [op |-> "reset", from |-> NoStack, to |-> NoStack, approved |-> FALSE,
                prev |-> last.op]
    /\ approved_moves' = 0
    /\ undos' = 0
    /\ UNCHANGED <<stage_backup, pc, start_stacks>>

\* MenuOption::Reset => *self = stage_backup.clone()
Reset ==
    /\ Playing
    /\ game' = clone(stage_backup)
    /\ before' = clone(stage_backup)
    /\ last' = [op |-> "reset", from |-> NoStack, to |-> NoStack, approved |-> FALSE,
                prev |-> last.op]
    /\ approved_moves' = 0
    /\ undos' = 0
    /\ UNCHANGED <<stage_backup, pc, start_stacks>>

\* Help and Quit: the loop goes round without touching the Game.
OtherMenu ==
    /\ Playing
    /\ before' = game
    /\ last' = [op |-> "menu", from |-> NoStack, to |-> NoStack, approved |-> FALSE,
                prev |-> last.op]
    /\ UNCHANGED <<game, stage_backup, pc, start_stacks, approved_moves, undos>>

\* if self.stage_complete() { break; }
StageComplete ==
    /\ pc = "playing"
    /\ stage_complete(game)
    /\ pc' = "done"
    /\ UNCHANGED <<game, stage_backup, start_stacks, last, before, approved_moves, undos>>

Next ==
    \/ \E from \in StackIdx, to \in StackIdx : MoveLegally(from, to)
    \/ UndoMove
    \/ Reset
    \/ OtherMenu
    \/ StageComplete

Spec == Init /\ [][Next]_vars

\* ------------------------------------------------------------------------
\* Properties
\* ------------------------------------------------------------------------
\* The run of n units of one kind.
run_of(kind, n) == [j \in 1..n |-> kind]

\* Kind k is consolidated: some stack holds exactly all units of k.
consolidated(g, k) ==
    \E i \in StackIdx : g.stacks[i].units = run_of(k, g.units_per_kind[k])

\* C1  Kind conservation: in every reachable state the units of every kind,
\* summed over all stacks, number what units_per_kind recorded at
\* construction (and no kind appears that was not recorded).
KindConservation ==
    /\ game.units_per_kind = stage_backup.units_per_kind
    /\ \A k \in Kinds :
         sum_over(game.stacks, StackIdx, k)
           = (IF k \in DOMAIN game.units_per_kind THEN game.units_per_kind[k] ELSE 0)

\* C1 witness: units have travelled (moves and an undo) and the layout
\* differs from the one the counts were taken from.
KindConservationWitness ==
    /\ approved_moves > 1
    /\ undos > 0
    /\ last.op = "move"
    /\ last.approved
    /\ game.stacks # start_stacks

\* C2  Bitmask correctness: in every reachable state, for every kind k, bit
\* kind_indices[k] of kinds_status is set iff some stack's entire content is
\* exactly the units_per_kind[k] units of kind k.
BitmaskCorrect ==
    \A k \in DOMAIN game.units_per_kind :
        bit(game.kinds_status, game.kind_indices[k]) <=> consolidated(game, k)

\* C3  Completion is sound: whenever stage_complete() is true every
\* non-empty stack holds units of exactly one kind and all units of it.
CompletionSound ==
    stage_complete(game) =>
        \A i \in StackIdx :
            game.stacks[i].units # <<>> =>
                \E k \in DOMAIN game.units_per_kind :
                    game.stacks[i].units = run_of(k, game.units_per_kind[k])

\* C4  A solved board is recognised: in every state of the turn loop in
\* which every kind is consolidated on a stack, stage_complete() is true.
SolvedBoardRecognised ==
    (\A k \in DOMAIN game.units_per_kind : consolidated(game, k))
        => stage_complete(game)

\* C5  A rejected move is a no-op: a move_legally that is not approved
\* leaves stacks, ledger, kinds_status and turn (the whole Game) as they were.
RejectedMoveIsNoOp ==
    [][(last'.op = "move" /\ ~last'.approved) =>
          /\ game'.stacks = game.stacks
          /\ game'.ledger = game.ledger
          /\ game'.kinds_status = game.kinds_status
          /\ game'.turn = game.turn
          /\ game' = game]_vars

\* C5 witness: a move between two stacks was just rejected for want of room
\* although the kinds matched, in a game that already has a ledger and a
\* turn count to preserve.
RejectedMoveWitness ==
    /\ last.op = "move"
    /\ ~last.approved
    /\ last.from # last.to
    /\ clone_top_unit(game.stacks[last.from]) = clone_top_unit(game.stacks[last.to])
    /\ Len(game.ledger) > 0
    /\ game.turn > 1

\* C6  Undo inverts the last move exactly: an undo_move that follows an
\* approved player move restores every stack to its contents before that
\* move, removes exactly that move's ledger entry (the ledger is one shorter)
\* and does not decrement turn.
UndoInvertsLastMove ==
    [][(last.op = "move" /\ last.approved /\ last'.op = "undo") =>
          /\ game'.stacks = before.stacks
          /\ game'.ledger = before.ledger
          /\ Len(game'.ledger) = Len(game.ledger) - 1
          /\ game'.turn >= game.turn]_vars

\* C6 witness: an undo has just taken back an approved move of at least one
\* unit between two different stacks.
UndoInvertsWitness ==
    /\ last.op = "undo"
    /\ last.prev = "move"
    /\ last.approved
    /\ before.ledger[Len(before.ledger)].quantity > 0
    /\ before.ledger[Len(before.ledger)].from # before.ledger[Len(before.ledger)].to
    /\ before.stacks # game.stacks

\* C7  Reset restores the exact start state: right after a reset the stacks
\* are the layout turn_loop started with, turn is 1, the ledger is empty and
\* an undo changes nothing; the backup keeps the start layout throughout.
ResetRestoresStart ==
    /\ stage_backup.stacks = start_stacks
    /\ stage_backup.ledger = <<>>
    /\ stage_backup.turn = 1
    /\ last.op = "reset" =>
          /\ game.stacks = start_stacks
          /\ game.turn = 1
          /\ game.ledger = <<>>
          /\ undo_move(game) = game

\* C7 witness: a reset that came after an undo, itself after moves.
ResetWitness ==
    /\ last.op = "reset"
    /\ last.prev = "undo"
    /\ game.stacks = start_stacks

\* The maximal top run of a sequence of units, and what lies under it.
top_run(units) == SubSeq(units, Len(units) - top_run_len(units) + 1, Len(units))

under_run(units) == SubSeq(units, 1, Len(units) - top_run_len(units))

\* The stack `to` as the legality check sees it: with the run taken off when
\* the move goes from a stack to itself.
residents_of(g, from, to) ==
    IF from = to THEN under_run(g.stacks[from].units) ELSE g.stacks[to].units

\* Rule (1): kinds match, or the run is empty, or `to` is empty.
kind_rule(run, residents) ==
    \/ run = <<>>
    \/ residents = <<>>
    \/ run[1] = residents[Len(residents)]

\* Rule (2): the run fits into the vacancy of `to`.
room_rule(run, residents, capacity) == Len(run) <= capacity - Len(residents)

\* C8  Move legality: a player move of the maximal top run R of `from` onto
\* `to` is approved iff (1) R's kind equals to's top kind, or R is empty, or
\* `to` is empty, and (2) R is no longer than to's vacancy; approved, R ends
\* up on top of `to`; otherwise R is put back on `from`.
MoveLegality ==
    [][(last'.op = "move" /\ pc' = "playing") =>
          LET from == last'.from
              to == last'.to
              run == top_run(game.stacks[from].units)
              residents == residents_of(game, from, to)
              legal == /\ kind_rule(run, residents)
                       /\ room_rule(run, residents, game.stacks[to].capacity)
          IN /\ last'.approved <=> legal
             /\ legal => /\ game'.stacks[to].units = residents \o run
                         /\ from # to =>
                               game'.stacks[from].units = under_run(game.stacks[from].units)
             /\ ~legal => game'.stacks = game.stacks
             /\ \A i \in StackIdx \ {from, to} : game'.stacks[i] = game.stacks[i]]_vars

\* C8 witness: a run of several units has just been approved onto a
\* non-empty stack of the same kind that it fills to capacity.
MoveLegalityWitness ==
    /\ last.op = "move"
    /\ last.approved
    /\ last.from # last.to
    /\ game.ledger[Len(game.ledger)].quantity > 1
    /\ Len(game.stacks[last.to].units) = game.stacks[last.to].capacity
    /\ Len(before.stacks[last.to].units) > 0

\* C9  Turn policy: turn is 1 after construction; an approved move (a player
\* move or the forced move of an undo) adds 1 to turn when the stage is not
\* complete after it and leaves turn alone when it completes the stage;
\* rejected moves and undo on an empty ledger leave turn alone; only reset
\* lowers turn.
TurnPolicy ==
    /\ game.turn = 1
    /\ [][pc' = "playing" =>
            /\ (last'.op \in {"move", "undo"} /\ last'.approved) =>
                  game'.turn = game.turn + (IF stage_complete(game') THEN 0 ELSE 1)
            /\ (last'.op \in {"move", "undo"} /\ ~last'.approved) =>
                  game'.turn = game.turn
            /\ last'.op # "reset" => game'.turn >= game.turn]_vars

\* C9 witness: an approved move has just completed the stage and turn stayed.
TurnPolicyWitness ==
    /\ last.op = "move"
    /\ last.approved
    /\ stage_complete(game)
    /\ game.turn = before.turn
    /\ game.turn > 1

\* C10  Ledger policy: an approved player move appends one Entry {from, to,
\* kind, quantity} of the run moved; rejected moves append nothing; an undo
\* of a non-empty ledger removes the last entry and appends nothing; so the
\* ledger length is the approved player moves minus the undos of a non-empty
\* ledger since construction or the last reset.
LedgerPolicy ==
    /\ [](Len(game.ledger) = approved_moves - undos)
    /\ [][pc' = "playing" =>
            /\ (last'.op = "move" /\ last'.approved) =>
                  game'.ledger = Append(game.ledger,
                      [from |-> last'.from, to |-> last'.to,
                       kind |-> clone_top_unit(game.stacks[last'.from]),
                       quantity |-> Len(top_run(game.stacks[last'.from].units))])
            /\ (last'.op = "move" /\ ~last'.approved) => game'.ledger = game.ledger
            /\ (last'.op = "undo" /\ last'.approved) =>
                  game'.ledger = SubSeq(game.ledger, 1, Len(game.ledger) - 1)
            /\ (last'.op = "undo" /\ ~last'.approved) => game'.ledger = game.ledger]_vars

\* C10 witness: an undo has just shortened a ledger that still holds an
\* earlier move.
LedgerPolicyWitness ==
    /\ last.op = "undo"
    /\ last.approved
    /\ Len(game.ledger) > 0
    /\ approved_moves = 2
    /\ undos = 1

\* C11  Undo on an empty ledger is a defined no-op: stacks, ledger,
\* kinds_status and turn (the whole Game) stay as they were.
UndoOnEmptyLedgerIsNoOp ==
    [][(last'.op = "undo" /\ Len(game.ledger) = 0) =>
          /\ game'.stacks = game.stacks
          /\ game'.ledger = game.ledger
          /\ game'.kinds_status = game.kinds_status
          /\ game'.turn = game.turn
          /\ game' = game]_vars

\* C11 witness: an undo has just met a ledger that earlier moves and undos
\* had emptied again.
UndoOnEmptyLedgerWitness ==
    /\ last.op = "undo"
    /\ ~last.approved
    /\ Len(game.ledger) = 0
    /\ undos > 0
    /\ game.turn > 1

\* C12  Capacity is never exceeded: in every reachable state every stack is
\* no longer than its capacity, forced moves of undo included.
CapacityRespected ==
    \A i \in StackIdx : Len(game.stacks[i].units) <= game.stacks[i].capacity

\* C12 witness: an undo's forced move has just filled a stack to capacity.
CapacityWitness ==
    /\ last.op = "undo"
    /\ last.approved
    /\ \E i \in StackIdx :
          /\ Len(game.stacks[i].units) = game.stacks[i].capacity
          /\ Len(before.stacks[i].units) < game.stacks[i].capacity

\* C13  Stage-complete is terminal and entered exactly on a full bitmask: the
\* loop stops only when kinds_status is full; once it is full no move, undo
\* or reset is dispatched and the Game no longer changes; while it is not
\* full the loop is still playing and takes a decision.
StageCompleteIsTerminal ==
    /\ [](pc = "done" => stage_complete(game))
    /\ [](~stage_complete(game) => (pc = "playing" /\ ENABLED OtherMenu))
    /\ [][stage_complete(game) =>
             /\ game' = game
             /\ last' = last
             /\ pc' = "done"]_vars
    /\ [][pc = "done" => pc' = "done"]_vars

\* C13 witness: the loop has stopped on a full bitmask reached by play.
StageCompleteWitness ==
    /\ pc = "done"
    /\ stage_complete(game)
    /\ last.op = "move"
    /\ Len(game.ledger) > 1

\* C14  No stale completion bit: whenever bit kind_indices[k] is set, some
\* stack's maximal top run is of kind k and has length units_per_kind[k].
NoStaleBit ==
    \A k \in DOMAIN game.units_per_kind :
        bit(game.kinds_status, game.kind_indices[k]) =>
            \E i \in StackIdx :
                top_run(game.stacks[i].units) = run_of(k, game.units_per_kind[k])

\* C15  Undo precondition: with a non-empty ledger whose last entry is
\* {from, to, kind k, quantity q}, the top q units of stack `to` are all of
\* kind k and, when from differs from to, `from` has vacancy for q units.
UndoPrecondition ==
    Len(game.ledger) > 0 =>
        LET entry == game.ledger[Len(game.ledger)]
            units == game.stacks[entry.to].units
        IN /\ entry.quantity <= Len(units)
           /\ \A j \in (Len(units) - entry.quantity + 1)..Len(units) : units[j] = entry.kind
           /\ entry.from # entry.to =>
                 entry.quantity <= game.stacks[entry.from].capacity
                                     - Len(game.stacks[entry.from].units)

\* C15 witness: after an undo the ledger's last entry is an earlier move of
\* real units between two stacks.
UndoPreconditionWitness ==
    /\ last.op = "undo"
    /\ last.approved
    /\ Len(game.ledger) > 0
    /\ game.ledger[Len(game.ledger)].quantity > 0
    /\ game.ledger[Len(game.ledger)].from # game.ledger[Len(game.ledger)].to

\* undo_move called until the ledger is empty.
RECURSIVE undo_all(_)
undo_all(g) == IF Len(g.ledger) = 0 THEN g ELSE undo_all(undo_move(g))

\* C16  Full undo round-trip: from every reachable state, undo_move repeated
\* until the ledger is empty returns every stack to its contents at
\* construction or the last reset.
UndoAllRestoresStart ==
    /\ undo_all(game).stacks = start_stacks
    /\ Len(game.ledger) = 0 => game.stacks = start_stacks

\* C16 witness: of two moves that changed the board one has been undone and
\* the other is still in the ledger for the repeated undo to take back.
UndoAllWitness ==
    /\ last.op = "undo"
    /\ last.approved
    /\ approved_moves = 2
    /\ Len(game.ledger) = 1
    /\ game.ledger[1].quantity > 0
    /\ before.stacks # game.stacks
    /\ game.stacks # start_stacks

\* What update_kind_status makes of the mask for a stack with these units:
\* the bit of the top kind follows the top run, every other bit is kept.
refreshed(g, status, units) ==
    IF units = <<>> THEN status
    ELSE LET k == units[Len(units)]
             i == g.kind_indices[k]
             cleared == IF bit(status, i) THEN status - 2 ^ i ELSE status
         IN IF top_run_len(units) = g.units_per_kind[k] THEN cleared + 2 ^ i ELSE cleared

\* C17  A player move from an empty source stack is approved for every
\* destination: no stack changes, the bitmask is refreshed for both stacks,
\* turn grows by 1 unless the stage is then complete, and an entry with the
\* empty kind and quantity 0 is appended.
EmptySourceMove ==
    [][(last'.op = "move" /\ pc' = "playing" /\ game.stacks[last'.from].units = <<>>) =>
          /\ last'.approved
          /\ game'.stacks = game.stacks
          /\ game'.kinds_status
               = refreshed(game, game.kinds_status, game.stacks[last'.to].units)
          /\ game'.turn = game.turn + (IF stage_complete(game') THEN 0 ELSE 1)
          /\ game'.ledger = Append(game.ledger,
                [from |-> last'.from, to |-> last'.to, kind |-> EmptyKind, quantity |-> 0])]_vars

\* C17 witness: a move from an empty stack onto a stack that holds units has
\* just been approved and has changed the bitmask.
EmptySourceWitness ==
    /\ last.op = "move"
    /\ last.approved
    /\ game.stacks[last.from].units = <<>>
    /\ game.ledger[Len(game.ledger)].quantity = 0
    /\ game.stacks[last.to].units # <<>>
    /\ game.kinds_status # before.kinds_status

\* The bits of the top kinds of stacks a and b of g.
top_bits(g, a, b) ==
    {g.kind_indices[clone_top_unit(g.stacks[i])] :
        i \in {j \in {a, b} : g.stacks[j].units # <<>>}}

\* Between g and h stacks a and b alone may differ, the derived maps and the
\* name are the same, and only bits of the top kinds of a and b in h differ.
frame(g, h, a, b) ==
    /\ \A i \in StackIdx \ {a, b} : h.stacks[i] = g.stacks[i]
    /\ h.units_per_kind = g.units_per_kind
    /\ h.kind_indices = g.kind_indices
    /\ h.stage_name = g.stage_name
    /\ \A i \in 0..MaxKind :
          bit(h.kinds_status, i) # bit(g.kinds_status, i) => i \in top_bits(h, a, b)

\* C18  Frame of a move: an approved move or undo between `from` and `to`
\* leaves the other stacks, units_per_kind, kind_indices and stage_name
\* alone and changes only bits of the top kinds of `from` and `to` after it.
MoveFrame ==
    [][pc' = "playing" =>
          /\ (last'.op = "move" /\ last'.approved) =>
                frame(game, game', last'.from, last'.to)
          /\ (last'.op = "undo" /\ last'.approved) =>
                frame(game, game', game.ledger[Len(game.ledger)].from,
                      game.ledger[Len(game.ledger)].to)]_vars

\* C18 witness: an approved move between two stacks has changed one bit
\* while another bit stayed set and a third stack holds units.
MoveFrameWitness ==
    /\ last.op = "move"
    /\ last.approved
    /\ last.from # last.to
    /\ game.kinds_status # before.kinds_status
    /\ \E i \in 0..MaxKind : bit(game.kinds_status, i) /\ bit(before.kinds_status, i)
    /\ \E i \in StackIdx \ {last.from, last.to} : game.stacks[i].units # <<>>

\* C19  update_kind_status(i) never changes a stack, changes nothing at all
\* when stack i is empty, and otherwise sets the bit of stack i's top kind
\* exactly when the maximal top run has units_per_kind of that kind units,
\* clears it otherwise, keeps every other bit and never leaves the mask's
\* range (no underflow).
UpdateKindStatusEffect ==
    \A i \in StackIdx :
        LET after == update_kind_status(game, i)
            units == game.stacks[i].units
            top == units[Len(units)]
        IN /\ after.stacks = game.stacks
           /\ [after EXCEPT !.kinds_status = game.kinds_status] = game
           /\ units = <<>> => after = game
           /\ after.kinds_status \in 0..(2 ^ Cardinality(DOMAIN game.units_per_kind) - 1)
           /\ units # <<>> =>
                 /\ bit(after.kinds_status, game.kind_indices[top])
                      <=> top_run_len(units) = game.units_per_kind[top]
                 /\ \A j \in 0..MaxKind :
                       j # game.kind_indices[top] =>
                          (bit(after.kinds_status, j) <=> bit(game.kinds_status, j))

\* C19 witness: the refresh that ends an undo's forced move has just cleared
\* the bit of a kind whose run the undo split.
UpdateKindStatusWitness ==
    /\ last.op = "undo"
    /\ last.approved
    /\ game.kinds_status < before.kinds_status
    /\ \E i \in StackIdx :
          /\ game.stacks[i].units # <<>>
          /\ top_run_len(game.stacks[i].units)
               < game.units_per_kind[clone_top_unit(game.stacks[i])]

\* The kinds that occur in a layout.
kinds_of(stacks) ==
    {k \in Kinds : \E i \in StackIdx : \E j \in 1..Len(stacks[i].units) :
                      stacks[i].units[j] = k}

\* C20  kind_indices is a bijection from the kinds of the initial stacks onto
\* 0..(number of kinds - 1), increasing with the kind, and is the same after
\* every move, undo and reset of the stage.
KindIndicesBijection ==
    /\ [](LET idx == game.kind_indices
              present == kinds_of(start_stacks)
          IN /\ DOMAIN idx = present
             /\ {idx[k] : k \in present} = 0..(Cardinality(present) - 1)
             /\ \A j, k \in present : j < k => idx[j] < idx[k]
             /\ idx = stage_backup.kind_indices)
    /\ [][game'.kind_indices = game.kind_indices]_vars

\* C20 witness: a stage without the smallest kind, after a reset that
\* followed play.
KindIndicesWitness ==
    /\ DOMAIN game.kind_indices = {MaxKind}
    /\ last.op = "reset"
    /\ last.prev \in {"move", "undo"}

====
